---- MODULE Spec2Model ----
(***************************************************************************)
(* DRL_PairsTrading (src/DRL_PairsTrading.py): a dense encoder, a stack of *)
(* GRU cells, a tanh action head, the transaction-cost-adjusted log reward *)
(* and its aggregates, and the session operations around them.            *)
(*                                                                         *)
(* Numbers are tf.float32 values modelled as fixed-point numbers of        *)
(* resolution 1/Scale together with the three non-finite values of IEEE    *)
(* arithmetic.  As in float32, a result is rounded to the nearest          *)
(* representable value, so tanh and sigmoid reach exactly +-1 / 0 and 1    *)
(* once their argument is large enough.  The instances are built with     *)
(* feature_number = 1, dense_units_list = [], rnn_hidden_units_number = 1  *)
(* and rnn_hidden_layer_number = 2, so a tensor of shape [T, 1] is a       *)
(* sequence of T numbers.                                                  *)
(***************************************************************************)
EXTENDS Integers, Sequences, FiniteSets

\* ------------------------------------------------------------------ bounds
MaxT == 2          \* most timesteps (rows) of one batch

\* --------------------------------------------------------- number format
Scale == 4         \* one unit of the fixed-point format: 1.0 is Scale

Fin(n) == [k |-> "fin", v |-> n]
NaN == [k |-> "nan", v |-> 0]
PInf == [k |-> "inf", v |-> 1]
NInf == [k |-> "inf", v |-> -1]
Zero == Fin(0)
One == Fin(Scale)

IsFin(x) == x.k = "fin"
IsNaN(x) == x.k = "nan"
IsInf(x) == x.k = "inf"

Sgn(n) == IF n > 0 THEN 1 ELSE IF n < 0 THEN -1 ELSE 0
AbsInt(n) == IF n < 0 THEN -n ELSE n
\* n / d rounded to the nearest integer, d > 0
RoundDiv(n, d) == (2 * n + d) \div (2 * d)
Inf(s) == IF s < 0 THEN NInf ELSE PInf

Lt(x, y) ==
  /\ ~IsNaN(x) /\ ~IsNaN(y)
  /\ IF IsInf(x) THEN x.v < 0 /\ ~(IsInf(y) /\ y.v < 0)
     ELSE IF IsInf(y) THEN y.v > 0
     ELSE x.v < y.v
Le(x, y) == ~IsNaN(x) /\ ~IsNaN(y) /\ (x = y \/ Lt(x, y))

Neg(x) == IF IsNaN(x) THEN NaN ELSE [x EXCEPT !.v = -x.v]
Abs(x) == IF IsNaN(x) THEN NaN ELSE [x EXCEPT !.v = AbsInt(x.v)]
Add(x, y) ==
  IF IsNaN(x) \/ IsNaN(y) THEN NaN
  ELSE IF IsInf(x) /\ IsInf(y) THEN (IF x.v = y.v THEN x ELSE NaN)
  ELSE IF IsInf(x) THEN x
  ELSE IF IsInf(y) THEN y
  ELSE Fin(x.v + y.v)
Sub(x, y) == Add(x, Neg(y))
Mul(x, y) ==
  IF IsNaN(x) \/ IsNaN(y) THEN NaN
  ELSE IF IsInf(x) \/ IsInf(y)
       THEN (IF x.v = 0 \/ y.v = 0 THEN NaN ELSE Inf(Sgn(x.v) * Sgn(y.v)))
  ELSE Fin(RoundDiv(x.v * y.v, Scale))
\* a zero divisor is +0 everywhere in this graph (a count, a root, a variance)
Div(x, y) ==
  IF IsNaN(x) \/ IsNaN(y) THEN NaN
  ELSE IF IsInf(x) THEN (IF IsInf(y) THEN NaN
                         ELSE Inf(x.v * (IF y.v < 0 THEN -1 ELSE 1)))
  ELSE IF IsInf(y) THEN Zero
  ELSE IF y.v = 0 THEN (IF x.v = 0 THEN NaN ELSE Inf(x.v))
  ELSE Fin(RoundDiv(x.v * Scale * Sgn(y.v), AbsInt(y.v)))

\* tf.tanh at this resolution: Scale * tanh(n / Scale), rounded
TanhTable == <<1, 2, 3, 3, 3>>
Tanh(x) ==
  IF IsNaN(x) THEN NaN
  ELSE IF IsInf(x) THEN Fin(Sgn(x.v) * Scale)
  ELSE IF x.v = 0 THEN Zero
  ELSE IF AbsInt(x.v) > Len(TanhTable) THEN Fin(Sgn(x.v) * Scale)
  ELSE Fin(Sgn(x.v) * TanhTable[AbsInt(x.v)])

\* tf.sigmoid at this resolution: Scale / (1 + exp(-n / Scale)), rounded
SigmoidTable == <<2, 2, 3, 3, 3, 3, 3>>
SigmoidPos(n) ==
  IF n = 0 THEN Scale \div 2
  ELSE IF n > Len(SigmoidTable) THEN Scale
  ELSE SigmoidTable[n]
Sigmoid(x) ==
  IF IsNaN(x) THEN NaN
  ELSE IF IsInf(x) THEN (IF x.v > 0 THEN One ELSE Zero)
  ELSE IF x.v >= 0 THEN Fin(SigmoidPos(x.v))
  ELSE Fin(Scale - SigmoidPos(-x.v))

\* tf.log at this resolution: Scale * ln(n / Scale), rounded, for n in 1..12
LogTable == <<-6, -3, -1, 0, 1, 2, 2, 3, 3, 4, 4, 4>>
Log(x) ==
  IF IsNaN(x) THEN NaN
  ELSE IF IsInf(x) THEN (IF x.v > 0 THEN PInf ELSE NaN)
  ELSE IF x.v < 0 THEN NaN
  ELSE IF x.v = 0 THEN NInf
  ELSE Fin(LogTable[x.v])

\* tf.sqrt: the nearest r with r / Scale = sqrt(n / Scale)
Sqrt(x) ==
  IF IsNaN(x) THEN NaN
  ELSE IF IsInf(x) THEN (IF x.v > 0 THEN PInf ELSE NaN)
  ELSE IF x.v < 0 THEN NaN
  ELSE LET n == x.v * Scale
       IN Fin(CHOOSE r \in 0..n :
                /\ (r = 0 \/ (2 * r - 1) * (2 * r - 1) <= 4 * n)
                /\ 4 * n < (2 * r + 1) * (2 * r + 1))

\* tf.sign: -1, 0 or 1, and 0 for NaN
Sign(x) == IF IsNaN(x) THEN Zero ELSE Fin(Sgn(x.v) * Scale)

\* ------------------------------------------------------- tensor helpers
RECURSIVE reduce_sum(_)
reduce_sum(r) == IF r = <<>> THEN Zero ELSE Add(r[1], reduce_sum(Tail(r)))

reduce_mean(r) == Div(reduce_sum(r), Fin(Len(r) * Scale))

\* tf.nn.moments(r, axes=[0]): mean and variance over the rows
SquaredDifference(r, mean) ==
  [i \in 1..Len(r) |-> Mul(Sub(r[i], mean), Sub(r[i], mean))]
moments(r) ==
  LET mean == reduce_mean(r)
  IN [mean |-> mean, var |-> reduce_mean(SquaredDifference(r, mean))]

\* ------------------------------------------------ construction parameters
dense_units_list == <<>>
rnn_hidden_layer_number == 2
ObjectFunctions == {"reward", "sharpe", "sortino"}

\* ------------------------------------------------------------ the graph
\* A feed dict is a record with the six placeholders of build_feed_dict:
\*   f, z: sequences of rows; c, dropout_keep_prob: numbers;
\*   hidden_rnn_init_state: one number per recurrent layer;
\*   previous_rnn_output: one number.
\* The variables of an instance are a record
\*   dense: one [w, b] per fully connected layer of the encoder,
\*   gru:   the kernels and biases of the one GRUCell object every layer uses,
\*   act:   [w, b] of the action layer.

Floor(x) == IF IsFin(x) THEN Fin((x.v \div Scale) * Scale) ELSE x

\* tf.nn.dropout(x, keep_prob) with uniform sample u in [0, 1)
dropout(x, keep_prob, u) == Mul(Div(x, keep_prob), Floor(Add(keep_prob, u)))

fully_connected_tanh(x, layer) == Tanh(Add(Mul(x, layer.w), layer.b))

add_dense_layer(inputs, layer, drop_keep_prob, u) ==
  [i \in 1..Len(inputs) |->
     dropout(fully_connected_tanh(inputs[i], layer), drop_keep_prob, u[i])]

\* the loop over dense_units_list followed by the projection layer
RECURSIVE dense_stack(_, _, _, _)
dense_stack(layers, inputs, drop_keep_prob, u) ==
  IF layers = <<>> THEN inputs
  ELSE dense_stack(Tail(layers),
                   add_dense_layer(inputs, layers[1], drop_keep_prob, u[1]),
                   drop_keep_prob, Tail(u))

dense_output(vars, feed, u) ==
  dense_stack(vars.dense, feed.f, feed.dropout_keep_prob, u)

\* tf.contrib.rnn.GRUCell, one step: the new state, which is also the output
gru_cell(g, x, h) ==
  LET r == Sigmoid(Add(Add(Mul(x, g.wr_x), Mul(h, g.wr_h)), g.br))
      uu == Sigmoid(Add(Add(Mul(x, g.wu_x), Mul(h, g.wu_h)), g.bu))
      c == Tanh(Add(Add(Mul(x, g.wc_x), Mul(Mul(r, h), g.wc_h)), g.bc))
  IN Add(Mul(uu, h), Mul(Sub(One, uu), c))

\* MultiRNNCell([cell] * n), one step: the new state of every layer; layer i
\* reads the output of layer i - 1
RECURSIVE layered_cell(_, _, _)
layered_cell(g, x, state) ==
  IF state = <<>> THEN <<>>
  ELSE LET h == gru_cell(g, x, state[1])
       IN <<h>> \o layered_cell(g, h, Tail(state))

\* tf.nn.dynamic_rnn: the top layer's output per timestep and the final state
RECURSIVE dynamic_rnn(_, _, _)
dynamic_rnn(g, inputs, state) ==
  IF inputs = <<>> THEN [outputs |-> <<>>, state |-> state]
  ELSE LET s == layered_cell(g, inputs[1], state)
           rest == dynamic_rnn(g, Tail(inputs), s)
       IN [outputs |-> <<s[Len(s)]>> \o rest.outputs, state |-> rest.state]

zero_state == [i \in 1..rnn_hidden_layer_number |-> Zero]

\* a slip: the first row in place of the last
current_output_first(outputs) == outputs[1]

current_output(outputs) == outputs[Len(outputs)]

\* a slip: the carried row left out
rnn_outputs_new(previous_rnn_output, outputs) == outputs

rnn_outputs(previous_rnn_output, outputs) == <<previous_rnn_output>> \o outputs

\* a slip: the action layer without its activation
action_linear(act, rows) ==
  [i \in 1..Len(rows) |-> Add(Mul(rows[i], act.w), act.b)]

action(act, rows) ==
  [i \in 1..Len(rows) |-> Tanh(Add(Mul(rows[i], act.w), act.b))]

\* elementwise product / difference of two [n, 1] tensors; a tensor of one row
\* is broadcast over the rows of the other
BroadcastLen(x, y) == IF Len(x) = 1 THEN Len(y) ELSE Len(x)
Compatible(x, y) == Len(x) = Len(y) \/ Len(x) = 1 \/ Len(y) = 1
At(x, i) == IF Len(x) = 1 THEN x[1] ELSE x[i]

\* a slip: the return credited on the position taken after the step
log_reward_t_next(z, c, a) ==
  LET held == SubSeq(a, 1, Len(a) - 1)
      next == Tail(a)
  IN [t \in 1..BroadcastLen(z, held) |->
        Sub(Mul(Log(At(z, t)), At(next, t)),
            Mul(c, Abs(Sub(At(next, t), At(held, t)))))]

log_reward_t(z, c, a) ==
  LET held == SubSeq(a, 1, Len(a) - 1)
      next == Tail(a)
  IN [t \in 1..BroadcastLen(z, held) |->
        Sub(Mul(Log(At(z, t)), At(held, t)),
            Mul(c, Abs(Sub(At(next, t), At(held, t)))))]

\* a slip: the mean in place of the sum
cum_log_reward_mean(r) == reduce_mean(r)

cum_log_reward(r) == reduce_sum(r)

\* a slip: only the rows strictly below rf counted as downside
sortino_sign_strict(r, rf) ==
  [i \in 1..Len(r) |-> IF Lt(r[i], rf) THEN One ELSE Zero]

\* sign = tf.sign(-tf.sign(r - rf) + 1): 1 where r <= rf, 0 where r > rf
sortino_sign(r, rf) ==
  [i \in 1..Len(r) |-> Sign(Add(Neg(Sign(Sub(r[i], rf))), One))]

sortino_number(r, rf) == reduce_sum(sortino_sign(r, rf))

sortino_lower(sign, r) == [i \in 1..Len(r) |-> Mul(sign[i], r[i])]

sortino_square_sum(lower) ==
  reduce_sum([i \in 1..Len(lower) |-> Mul(lower[i], lower[i])])

sortino_ratio(r, rf) ==
  LET mean == moments(r).mean
      number == sortino_number(r, rf)
      square_sum == sortino_square_sum(sortino_lower(sortino_sign(r, rf), r))
      sortino_var == Sqrt(Div(square_sum, number))
  IN Div(Sub(mean, rf), sortino_var)

Shifted(r, rf) == [i \in 1..Len(r) |-> Sub(r[i], rf)]
MeanOverVar(m) == Div(m.mean, m.var)
sharpe_ratio(r, rf) == MeanOverVar(moments(Shifted(r, rf)))

\* the feed fits the placeholders and the graph's elementwise operations
FeedRuns(feed) ==
  /\ Len(feed.f) >= 1
  /\ Len(feed.z) >= 1
  /\ Compatible(feed.z, feed.f)

\* every tensor of one session.run over the graph; u holds the uniform
\* samples of the dropout layers, one row of samples per layer
Reward(rnn, a, r) ==
  [action |-> a,
   log_reward_t |-> r,
   cum_log_reward |-> cum_log_reward(r),
   sortino |-> sortino_ratio(r, Zero),
   sharpe |-> sharpe_ratio(r, Zero),
   current_state |-> rnn.state,
   current_output |-> current_output(rnn.outputs)]
ActionHead(feed, rnn, a) == Reward(rnn, a, log_reward_t(feed.z, feed.c, a))
Recurrent(vars, feed, rnn) ==
  ActionHead(feed, rnn, action(vars.act, rnn_outputs(feed.previous_rnn_output, rnn.outputs)))
Graph(vars, feed, u) ==
  Recurrent(vars, feed,
            dynamic_rnn(vars.gru, dense_output(vars, feed, u),
                        feed.hidden_rnn_init_state))

\* ------------------------------------------------------- input domains
Models == {"A", "B"}           \* two instances built with the same arguments
FeatVals == {Fin(-Scale), Fin(Scale)}
Fees == {Fin(1)}
KeepProbs == {One, Fin(Scale \div 2)}
Uniform == {Fin(0), Fin(Scale \div 2)}              \* samples of [0, 1)
\* price-ratio series of n rows: 0.5 and 2.0 in turn from either start, or
\* 2.0 in every row
Alternating(n) ==
  {[i \in 1..n |-> IF (i + k) % 2 = 1 THEN Fin(Scale \div 2) ELSE Fin(2 * Scale)] : k \in 0..1}
ReturnSeries(n) == Alternating(n) \cup {[i \in 1..n |-> Fin(2 * Scale)]}
SavePaths == {<<"ckpt">>, <<"out", "ckpt">>}
LoadFiles == SavePaths \cup {Append(p, "trade_model") : p \in SavePaths}

NDense == Len(dense_units_list) + 1
Samples(n) == [1..NDense -> [1..n -> Uniform]]

\* variable values: every encoder kernel wd, the GRU gate kernels wg and
\* candidate kernels wc, the action kernel wa and bias ba; the other biases
\* as their initializers leave them (1 for the gates, 0 elsewhere)
MakeVars(wd, wg, wc, wa, ba) ==
  [dense |-> [i \in 1..NDense |-> [w |-> Fin(wd), b |-> Zero]],
   gru |-> [wr_x |-> Fin(wg), wr_h |-> Fin(wg), br |-> One,
            wu_x |-> Fin(wg), wu_h |-> Fin(wg), bu |-> One,
            wc_x |-> Fin(wc), wc_h |-> Fin(wc), bc |-> Zero],
   act |-> [w |-> Fin(wa), b |-> Fin(ba)]]
NaNVars ==
  [dense |-> [i \in 1..NDense |-> [w |-> NaN, b |-> NaN]],
   gru |-> [wr_x |-> NaN, wr_h |-> NaN, br |-> NaN,
            wu_x |-> NaN, wu_h |-> NaN, bu |-> NaN,
            wc_x |-> NaN, wc_h |-> NaN, bc |-> NaN],
   act |-> [w |-> NaN, b |-> NaN]]
\* what global_variables_initializer can draw: kernels of magnitude at most
\* 1.0, zero biases
InitialVars ==
  {MakeVars(Scale, -Scale, Scale, Scale, 0), MakeVars(Scale, -Scale, Scale, -Scale, 0)}
\* what optimisation steps can lead to from finite gradients
TrainedVars == {MakeVars(2 * Scale, -2 * Scale, 2 * Scale, 3 * Scale, 2)}
Unset == MakeVars(0, 0, 0, 0, 0)

\* ---------------------------------------------------------------- state
VARIABLES
  object_function,   \* the constructor argument, the same for every instance
  train_op,          \* the tensor whose negation optimizer.minimize was given
  initialized,       \* per instance: the session's variables hold values
  variables,         \* per instance: the values of the session's variables
  dirs,              \* the directories that exist
  ckpt,              \* checkpoint file |-> the variable values saved in it
  batch_F,           \* the caller's data: the feature rows
  batch_Z,           \* the caller's data: the return rows
  feed,              \* the caller's feed dict: <<>> or <<the dict>>
  last               \* the last call: what it was, what it ran and returned

vars == <<object_function, train_op, initialized, variables, dirs, ckpt, batch_F, batch_Z, feed, last>>

NoRun ==
  [action |-> <<>>, log_reward_t |-> <<>>, cum_log_reward |-> Zero,
   sortino |-> Zero, sharpe |-> Zero, current_state |-> <<>>,
   current_output |-> Zero]

Call(op, m, raised) ==
  [op |-> op, model |-> m, raised |-> raised, arg |-> <<>>,
   run |-> NoRun, loss |-> Zero, ret |-> <<>>]

\* a slip: the Sharpe branch missing, so that 'sharpe' falls to the default
minimize_objective_no_sharpe(of) ==
  IF of = "reward" THEN "cum_log_reward"
  ELSE "sortino"

\* the branch of __init__ that builds train_op
minimize_objective(of) ==
  IF of = "reward" THEN "cum_log_reward"
  ELSE IF of = "sharpe" THEN "sharpe"
  ELSE "sortino"

Constructed ==
  /\ train_op = minimize_objective(object_function)
  /\ initialized = [m \in Models |-> FALSE]
  /\ variables = [m \in Models |-> Unset]
  /\ dirs = {<<>>}
  /\ ckpt = <<>>
  /\ feed = <<>>
  /\ last = Call("__init__", "A", FALSE)

\* the default objective, batches of at most MaxT rows: any features, the
\* returns of one of the series
Init ==
  /\ object_function = "sortino"
  /\ \E n \in 1..MaxT : batch_F \in [1..n -> FeatVals] /\ batch_Z \in ReturnSeries(n)
  /\ Constructed

\* every objective, batches of at most MaxT rows whose features and returns
\* alternate between their two values
InitLifecycle ==
  /\ object_function \in ObjectFunctions
  /\ \E n \in 1..MaxT :
       /\ batch_F = [i \in 1..n |-> IF i % 2 = 1 THEN Fin(Scale) ELSE Fin(-Scale)]
       /\ batch_Z \in Alternating(n)
  /\ Constructed

\* the default objective, one one-row batch
InitPair ==
  /\ object_function = "sortino"
  /\ batch_F = <<One>>
  /\ batch_Z = <<Fin(2 * Scale)>>
  /\ Constructed

\* ----------------------------------------------------------- feed dicts
\* A feed dict maps placeholders to values; a placeholder is a tensor of one
\* instance's graph, <<instance, name>>.
PlaceholderNames ==
  {"f", "z", "dropout_keep_prob", "hidden_rnn_init_state", "previous_rnn_output", "c"}
Placeholders(m) == {<<m, n>> : n \in PlaceholderNames}

\* the values a dict feeds to the placeholders of instance m
Fed(m, d) ==
  [f |-> d[<<m, "f">>], z |-> d[<<m, "z">>],
   dropout_keep_prob |-> d[<<m, "dropout_keep_prob">>],
   hidden_rnn_init_state |-> d[<<m, "hidden_rnn_init_state">>],
   previous_rnn_output |-> d[<<m, "previous_rnn_output">>],
   c |-> d[<<m, "c">>]]

\* session.run of instance m accepts the dict: every key is a tensor of m's
\* graph, every placeholder is fed, and the shapes fit
Accepts(m, d) == DOMAIN d = Placeholders(m) /\ FeedRuns(Fed(m, d))

\* ------------------------------------------------------------ operations
init_model(m) ==
  /\ \E v \in InitialVars : variables' = [variables EXCEPT ![m] = v]
  /\ initialized' = [initialized EXCEPT ![m] = TRUE]
  /\ last' = Call("init_model", m, FALSE)
  /\ UNCHANGED <<batch_F, batch_Z, object_function, train_op, dirs, ckpt, feed>>

get_rnn_zero_state(m) ==
  /\ last' = [Call("get_rnn_zero_state", m, FALSE) EXCEPT !.ret = zero_state]
  /\ UNCHANGED <<batch_F, batch_Z, object_function, train_op, initialized, variables, dirs, ckpt, feed>>

build_feed_dict(m, keep_prob, fee, rnn_hidden_init_state, previous_output) ==
  /\ feed' = << [k \in Placeholders(m) |->
                  CASE k[2] = "f" -> batch_F
                    [] k[2] = "z" -> batch_Z
                    [] k[2] = "dropout_keep_prob" -> keep_prob
                    [] k[2] = "hidden_rnn_init_state" -> rnn_hidden_init_state
                    [] k[2] = "previous_rnn_output" -> previous_output
                    [] k[2] = "c" -> fee] >>
  /\ last' = Call("build_feed_dict", m, FALSE)
  /\ UNCHANGED <<batch_F, batch_Z, object_function, train_op, initialized, variables, dirs, ckpt>>

\* a slip: the dict built anew around the new probability, the carried state
\* reset to zeros
change_drop_keep_prob_rebuilt(m, new_prob) ==
  /\ feed # <<>>
  /\ feed' = << [x \in DOMAIN feed[1] \cup {<<m, "dropout_keep_prob">>} |->
                  IF x = <<m, "dropout_keep_prob">> THEN new_prob
                  ELSE IF x[2] = "hidden_rnn_init_state" THEN zero_state
                  ELSE feed[1][x]] >>
  /\ last' = [Call("change_drop_keep_prob", m, FALSE) EXCEPT
                !.arg = new_prob, !.ret = feed'[1]]
  /\ UNCHANGED <<batch_F, batch_Z, object_function, train_op, initialized, variables, dirs, ckpt>>

change_drop_keep_prob(m, new_prob) ==
  /\ feed # <<>>
  /\ LET k == <<m, "dropout_keep_prob">>
     IN feed' = << [x \in DOMAIN feed[1] \cup {k} |->
                      IF x = k THEN new_prob ELSE feed[1][x]] >>
  /\ last' = [Call("change_drop_keep_prob", m, FALSE) EXCEPT
                !.arg = new_prob, !.ret = feed'[1]]
  /\ UNCHANGED <<batch_F, batch_Z, object_function, train_op, initialized, variables, dirs, ckpt>>

\* the loss tensor handed to optimizer.minimize
Loss(g) ==
  IF train_op = "cum_log_reward" THEN Neg(g.cum_log_reward)
  ELSE IF train_op = "sharpe" THEN Neg(g.sharpe)
  ELSE Neg(g.sortino)

\* One Adam step.  The step itself is the optimizer's: from a finite loss it
\* leads to some finite values, and a loss that is not finite has gradients
\* that are not, which the update writes into every variable.
AdamStep(loss) == IF IsFin(loss) THEN TrainedVars ELSE {NaNVars}

\* the outcomes of one session.run of instance m on dict d, one per draw of
\* the dropout samples
Runs(m, d) ==
  {Graph(variables[m], Fed(m, d), u) : u \in Samples(Len(d[<<m, "f">>]))}

train(m) ==
  /\ feed # <<>>
  /\ IF initialized[m] /\ Accepts(m, feed[1])
     THEN \E g \in Runs(m, feed[1]) : \E loss \in {Loss(g)} :
            /\ \E v \in AdamStep(loss) : variables' = [variables EXCEPT ![m] = v]
            /\ last' = [Call("train", m, FALSE) EXCEPT !.run = g, !.loss = loss]
     ELSE /\ last' = Call("train", m, TRUE)
          /\ UNCHANGED variables
  /\ UNCHANGED <<batch_F, batch_Z, object_function, train_op, initialized, dirs, ckpt, feed>>

\* a slip: train_op among the tensors trade runs
trade_with_train_op(m) ==
  /\ feed # <<>>
  /\ IF initialized[m] /\ Accepts(m, feed[1])
     THEN \E g \in Runs(m, feed[1]) :
            /\ \E v \in AdamStep(Loss(g)) : variables' = [variables EXCEPT ![m] = v]
            /\ last' = [Call("trade", m, FALSE) EXCEPT !.run = g, !.ret = <<g.log_reward_t, g.cum_log_reward, g.action, g.current_state, g.current_output>>]
     ELSE /\ last' = Call("trade", m, TRUE)
          /\ UNCHANGED variables
  /\ UNCHANGED <<batch_F, batch_Z, object_function, train_op, initialized, dirs, ckpt, feed>>

trade(m) ==
  /\ feed # <<>>
  /\ IF initialized[m] /\ Accepts(m, feed[1])
     THEN \E g \in Runs(m, feed[1]) :
            last' = [Call("trade", m, FALSE) EXCEPT
                       !.run = g,
                       !.ret = <<g.log_reward_t, g.cum_log_reward, g.action,
                                 g.current_state, g.current_output>>]
     ELSE last' = Call("trade", m, TRUE)
  /\ UNCHANGED <<batch_F, batch_Z, object_function, train_op, initialized, variables, dirs, ckpt, feed>>

Parent(p) == SubSeq(p, 1, Len(p) - 1)
model_file(model_path) == Append(model_path, "trade_model")

save_model(m, model_path) ==
  IF model_path \notin dirs /\ Parent(model_path) \notin dirs
  THEN \* os.mkdir raises
       /\ last' = [Call("save_model", m, TRUE) EXCEPT !.arg = model_path]
       /\ UNCHANGED <<batch_F, batch_Z, object_function, train_op, initialized, variables, dirs, ckpt, feed>>
  ELSE /\ dirs' = dirs \cup {model_path}
       /\ IF initialized[m]
          THEN /\ ckpt' = [x \in DOMAIN ckpt \cup {model_file(model_path)} |->
                             IF x = model_file(model_path) THEN variables[m] ELSE ckpt[x]]
               /\ last' = [Call("save_model", m, FALSE) EXCEPT !.arg = model_path]
          ELSE \* saver.save raises on variables that hold no value
               /\ last' = [Call("save_model", m, TRUE) EXCEPT !.arg = model_path]
               /\ UNCHANGED ckpt
       /\ UNCHANGED <<batch_F, batch_Z, object_function, train_op, initialized, variables, feed>>

load_model(m, file) ==
  /\ IF file \in DOMAIN ckpt
     THEN /\ variables' = [variables EXCEPT ![m] = ckpt[file]]
          /\ initialized' = [initialized EXCEPT ![m] = TRUE]
          /\ last' = [Call("load_model", m, FALSE) EXCEPT !.arg = file]
     ELSE \* saver.restore raises: no checkpoint under that name
          /\ last' = [Call("load_model", m, TRUE) EXCEPT !.arg = file]
          /\ UNCHANGED <<initialized, variables>>
  /\ UNCHANGED <<batch_F, batch_Z, object_function, train_op, dirs, ckpt, feed>>

\* the recurrent state and previous output a caller can hand to
\* build_feed_dict: zeros, or what the call before returned
Carried ==
  {<<zero_state, Zero>>} \cup
  (IF last.op = "trade" /\ ~last.raised THEN {<<last.ret[4], last.ret[5]>>} ELSE {})

Compute(m, keeps) ==
  \/ init_model(m)
  \/ \E kp \in keeps, fee \in Fees, hc \in Carried :
       build_feed_dict(m, kp, fee, hc[1], hc[2])
  \/ train(m)
  \/ trade(m)

Caller(m, keeps) ==
  \/ get_rnn_zero_state(m)
  \/ \E kp \in keeps : change_drop_keep_prob(m, kp)

Persist(m) ==
  \/ \E p \in SavePaths : save_model(m, p)
  \/ \E file \in LoadFiles : load_model(m, file)

\* one instance, its graph and the caller's feed dict
Next == Compute("A", KeepProbs) \/ Caller("A", KeepProbs)

Spec == Init /\ [][Next]_vars

\* one instance, every operation, no dropout
NextLifecycle == Compute("A", {One}) \/ Caller("A", {One}) \/ Persist("A")

SpecLifecycle == InitLifecycle /\ [][NextLifecycle]_vars

\* two instances and the checkpoints, no dropout
NextPair == \E m \in Models : Compute(m, {One}) \/ Persist(m)

SpecPair == InitPair /\ [][NextPair]_vars

\* ---------------------------------------------------------------- claims
\* the last call was trade / train of instance A and it returned
Traded == last.op = "trade" /\ last.model = "A" /\ ~last.raised
Trained == last.op = "train" /\ last.model = "A" /\ ~last.raised
\* what that call was fed (the dict is not touched between call and return)
FedA == Fed("A", feed[1])
T == Len(FedA.f)
Rewards == last.ret[1]
CumReward == last.ret[2]
Actions == last.ret[3]

\* C1: after every trade on T feature rows and T return rows, the returned
\* rewards are, for each step t, log(z[t]) times the action held before the
\* step minus the fee times the size of the change of action in the step.
C1_LogReward ==
  (Traded /\ Len(FedA.z) = T) =>
    /\ Len(Rewards) = T
    /\ \A t \in 1..T :
         Rewards[t] = Sub(Mul(Log(FedA.z[t]), Actions[t]),
                          Mul(FedA.c, Abs(Sub(Actions[t + 1], Actions[t]))))

\* a trade whose second step holds a position, changes it and pays a fee
C1_Witness ==
  /\ Traded /\ T >= 2
  /\ IsFin(Actions[2]) /\ Actions[2] # Zero /\ Actions[3] # Actions[2]
  /\ Mul(FedA.c, Abs(Sub(Actions[3], Actions[2]))) # Zero
  /\ Rewards[2] # Mul(Log(FedA.z[2]), Actions[3])

\* C2: after every trade on T rows there are T + 1 actions and T rewards; the
\* first action is the action layer applied to the carried previous output,
\* the last one the action layer applied to the returned new output.
C2_Lengths ==
  (Traded /\ Len(FedA.z) = T) =>
    /\ Len(Actions) = T + 1
    /\ Len(Rewards) = T
    /\ Len(Rewards) = Len(Actions) - 1
    /\ Actions[1] = action(variables["A"].act, <<FedA.previous_rnn_output>>)[1]
    /\ Actions[T + 1] = action(variables["A"].act, <<last.ret[5]>>)[1]

\* a trade on two rows that was handed a previous output other than zero
C2_Witness ==
  /\ Traded /\ T >= 2
  /\ FedA.previous_rnn_output # Zero
  /\ Actions[1] # Zero /\ Actions[1] # Actions[T + 1]

\* the sum of the first n rewards, from the left
RECURSIVE SumTo(_, _)
SumTo(r, n) == IF n = 0 THEN Zero ELSE Add(SumTo(r, n - 1), r[n])

\* C3: the second value trade returns is the sum of the rewards it returns
\* first.
C3_CumIsSum == Traded => CumReward = SumTo(Rewards, Len(Rewards))

\* a trade with two rewards, neither zero, whose sum is not their mean
C3_Witness ==
  /\ Traded /\ Len(Rewards) >= 2
  /\ \A t \in 1..Len(Rewards) : IsFin(Rewards[t]) /\ Rewards[t] # Zero
  /\ CumReward # reduce_mean(Rewards)

\* the rewards at or below the target 0, and the downside deviation and the
\* ratio as the specification words them
Downside(r) == SelectSeq(r, LAMBDA x : Le(x, Zero))
SquaresOf(r) == [i \in 1..Len(r) |-> Mul(Sub(r[i], Zero), Sub(r[i], Zero))]
DownsideDeviation(r) ==
  Sqrt(Div(reduce_sum(SquaresOf(Downside(r))), Fin(Len(Downside(r)) * Scale)))
SortinoOf(r) == Div(Sub(reduce_mean(r), Zero), DownsideDeviation(r))

\* C6: the Sortino value a train step negates and minimizes: when every reward
\* of the batch is above 0 the downside count is 0 and the value is not finite
\* (no default takes its place); when some reward is at or below 0 it is the
\* mean over the root of the mean square of the rewards at or below 0.
C6_Sortino ==
  (Trained /\ train_op = "sortino") =>
    LET r == last.run.log_reward_t
    IN /\ (\A i \in 1..Len(r) : Lt(Zero, r[i])) =>
            /\ sortino_number(r, Zero) = Zero
            /\ ~IsFin(last.run.sortino)
            /\ ~IsFin(last.loss)
       /\ (\E i \in 1..Len(r) : Le(r[i], Zero)) =>
            /\ sortino_number(r, Zero) = Fin(Len(Downside(r)) * Scale)
            /\ last.run.sortino = SortinoOf(r)
            /\ last.loss = Neg(SortinoOf(r))

\* a train step on two rewards, both above 0
C6_Witness ==
  /\ Trained /\ train_op = "sortino"
  /\ Len(last.run.log_reward_t) >= 2
  /\ \A i \in 1..Len(last.run.log_reward_t) : Lt(Zero, last.run.log_reward_t[i])
  /\ IsNaN(last.loss)

\* a train step on rewards on both sides of 0 with a finite Sortino value
C6_WitnessDownside ==
  /\ Trained /\ train_op = "sortino"
  /\ \E i \in 1..Len(last.run.log_reward_t) : Lt(Zero, last.run.log_reward_t[i])
  /\ \E i \in 1..Len(last.run.log_reward_t) : Lt(last.run.log_reward_t[i], Zero)
  /\ IsFin(last.loss) /\ last.loss # Zero

\* the graph's outputs for instance A on fed values x, as trade returns them
RetOf(g) ==
  <<g.log_reward_t, g.cum_log_reward, g.action, g.current_state, g.current_output>>
Chunk(x, from, to, h, o) ==
  [x EXCEPT !.f = SubSeq(x.f, from, to), !.z = SubSeq(x.z, from, to),
            !.hidden_rnn_init_state = h, !.previous_rnn_output = o]
Joined(first, second) ==
  <<first[1] \o second[1], Add(first[2], second[2]), first[3] \o Tail(second[3]),
    second[4], second[5]>>

\* C10: with dropout off, a trade on T rows returns what two trades on its
\* first k and last T - k rows return when the second is handed the state and
\* output the first returned: the rewards joined, the cumulative rewards
\* added, the actions joined without the second's first row (which is the
\* first's last row), and the second's state and output.
C10_Chunked ==
  (Traded /\ FedA.dropout_keep_prob = One /\ Len(FedA.z) = T) =>
    \A k \in 1..(T - 1) : \A u1 \in Samples(k), u2 \in Samples(T - k) :
      \E first \in {RetOf(Graph(variables["A"],
                     Chunk(FedA, 1, k, FedA.hidden_rnn_init_state,
                           FedA.previous_rnn_output), u1))} :
        \E second \in {RetOf(Graph(variables["A"],
                       Chunk(FedA, k + 1, T, first[4], first[5]), u2))} :
          /\ last.ret = Joined(first, second)
          /\ second[3][1] = first[3][k + 1]

\* the first chunk of one row of the last trade, alone
FirstRow ==
  RetOf(Graph(variables["A"],
              Chunk(FedA, 1, 1, FedA.hidden_rnn_init_state, FedA.previous_rnn_output),
              [i \in 1..NDense |-> <<Zero>>]))

\* a trade on two rows with dropout off that was handed a state and an output
\* other than zero, whose state after the first row is not its final state,
\* and whose actions differ
C10_Witness ==
  /\ Traded /\ FedA.dropout_keep_prob = One /\ T >= 2
  /\ FedA.hidden_rnn_init_state # zero_state
  /\ FedA.previous_rnn_output # Zero
  /\ FirstRow[4] # last.ret[4]
  /\ Actions[2] # Actions[3]

\* C9: a step that is a call of change_drop_keep_prob on the built dict leaves
\* the dict with every key it had, the new probability under the keep
\* probability placeholder and every other value as it was, returns that
\* dict, and leaves the variables of the instance as they were.
C9_ChangeInPlace ==
  [][(last'.op = "change_drop_keep_prob" /\ feed # <<>>) =>
       /\ DOMAIN feed'[1] = DOMAIN feed[1]
       /\ feed'[1][<<"A", "dropout_keep_prob">>] = last'.arg
       /\ \A k \in DOMAIN feed[1] \ {<<"A", "dropout_keep_prob">>} :
            feed'[1][k] = feed[1][k]
       /\ last'.ret = feed'[1]
       /\ ~last'.raised
       /\ variables' = variables /\ initialized' = initialized]_vars

\* a dict built with a carried state, its keep probability set to one half
C9_Witness ==
  /\ last.op = "change_drop_keep_prob" /\ feed # <<>>
  /\ last.arg = Fin(Scale \div 2)
  /\ FedA.dropout_keep_prob = Fin(Scale \div 2)
  /\ FedA.hidden_rnn_init_state # zero_state
  /\ initialized["A"]

\* the values of the trainable parameters of some instance change in the step
StoreChanges == variables' # variables \/ initialized' # initialized

\* C4 as stated: a step that changes the values of the trainable parameters
\* is a train call.
C4_OnlyTrain == [][StoreChanges => last'.op = "train"]_vars

\* C4, amended: a step that changes the values of the trainable parameters is
\* a call of train, init_model or load_model that returns; trade,
\* get_rnn_zero_state, build_feed_dict, change_drop_keep_prob and save_model
\* leave them as they are.
C4_OnlyTrainInitLoad ==
  [][StoreChanges =>
       /\ last'.op \in {"train", "init_model", "load_model"}
       /\ ~last'.raised]_vars

\* init_model has put initial values over the trained values that were saved
C4_Witness ==
  /\ last.op = "init_model"
  /\ variables["A"] \in InitialVars
  /\ \E file \in DOMAIN ckpt : ckpt[file] \in TrainedVars

\* C7: the tensor train minimizes is the negation of the one the constructor
\* argument names, in every state: after every train call the loss it ran is
\* the negated cumulative log reward for 'reward', the negated Sharpe value
\* for 'sharpe' and the negated Sortino value for 'sortino'.
C7_ObjectiveFixed ==
  /\ object_function = "reward" => train_op = "cum_log_reward"
  /\ object_function = "sharpe" => train_op = "sharpe"
  /\ object_function = "sortino" => train_op = "sortino"
  /\ Trained =>
       /\ object_function = "reward" => last.loss = Neg(last.run.cum_log_reward)
       /\ object_function = "sharpe" => last.loss = Neg(last.run.sharpe)
       /\ object_function = "sortino" => last.loss = Neg(last.run.sortino)

\* a train call of an instance built for 'sharpe', after a save and a load,
\* on a batch where the three objectives have three different values
C7_Witness ==
  /\ Trained /\ object_function = "sharpe"
  /\ DOMAIN ckpt # {}
  /\ IsFin(last.loss)
  /\ last.run.sharpe # last.run.sortino
  /\ last.run.sharpe # last.run.cum_log_reward
  /\ last.run.sortino # last.run.cum_log_reward

\* C8 as stated: every action trade returns is above -1 and below 1.
C8_OpenInterval ==
  Traded => \A i \in 1..Len(Actions) :
              Lt(Fin(-Scale), Actions[i]) /\ Lt(Actions[i], One)

\* C8, amended: every action trade returns is NaN or lies between -1 and 1,
\* the ends included.
C8_ClosedOrNaN ==
  Traded => \A i \in 1..Len(Actions) :
              IsNaN(Actions[i]) \/ (Le(Fin(-Scale), Actions[i]) /\ Le(Actions[i], One))

\* a trade that returns an action of exactly 1 and one strictly inside
C8_Witness ==
  /\ Traded
  /\ \E i \in 1..Len(Actions) : Actions[i] = One
  /\ \E i \in 1..Len(Actions) : Lt(Zero, Actions[i]) /\ Lt(Actions[i], One)

\* a trade that returns NaN actions
C8_WitnessNaN == Traded /\ \A i \in 1..Len(Actions) : IsNaN(Actions[i])

\* an instance that holds values saves to a location: the call returns and
\* the directory exists afterwards
C5_SaveCreates ==
  (last.op = "save_model" /\ initialized[last.model]) =>
    (~last.raised /\ last.arg \in dirs)

\* an instance loads from a location a save_model call has written to: the
\* call returns and the instance holds the saved values
C5_LoadSameLocation ==
  (last.op = "load_model" /\ last.arg \in dirs
     /\ Append(last.arg, "trade_model") \in DOMAIN ckpt) =>
    (~last.raised /\ variables[last.model] = ckpt[Append(last.arg, "trade_model")])

\* C5 as stated: save_model on a location whose directory does not exist
\* creates it and does not fail, and load_model on the location save_model
\* was given leaves the loading instance with the saved parameters.
C5_RoundTrip == C5_SaveCreates /\ C5_LoadSameLocation

\* save_model by an instance that holds values, on a location under a
\* directory that does not exist, has raised and has created nothing
C5_Witness ==
  /\ last.op = "save_model" /\ last.raised
  /\ initialized[last.model]
  /\ last.arg = <<"out", "ckpt">>
  /\ last.arg \notin dirs
  /\ DOMAIN ckpt = {<<"ckpt", "trade_model">>}

\* C5, what the code keeps of it: save_model on a location whose parent
\* directory exists, by an instance that holds values, returns, leaves the
\* directory and the file trade_model in it with the instance's parameters;
\* load_model on that file, by any instance, returns and leaves the instance
\* with the parameters of the file, and a trade of B with A's parameters
\* returns what A's graph computes from the same feed values.
C5_RoundTripByFile ==
  /\ (last.op = "save_model" /\ initialized[last.model] /\ Parent(last.arg) \in dirs) =>
       /\ ~last.raised
       /\ last.arg \in dirs
       /\ ckpt[Append(last.arg, "trade_model")] = variables[last.model]
  /\ (last.op = "load_model" /\ last.arg \in DOMAIN ckpt) =>
       /\ ~last.raised
       /\ initialized[last.model]
       /\ variables[last.model] = ckpt[last.arg]
  /\ (last.op = "trade" /\ last.model = "B" /\ ~last.raised /\ initialized["A"]
        /\ variables["B"] = variables["A"]) =>
       \E u \in Samples(Len(Fed("B", feed[1]).f)) :
         LET g == Graph(variables["A"], Fed("B", feed[1]), u)
         IN last.ret = <<g.log_reward_t, g.cum_log_reward, g.action, g.current_state, g.current_output>>

\* B has loaded the trained parameters A saved and has traded with them
C5_WitnessByFile ==
  /\ last.op = "trade" /\ last.model = "B" /\ ~last.raised
  /\ variables["A"] \in TrainedVars
  /\ variables["B"] = variables["A"]
  /\ \E file \in DOMAIN ckpt : ckpt[file] = variables["B"]

====
